---- MODULE Spec2Model ----
(***************************************************************************)
(* Order lifecycle of the MediStore backend: createOrder,                  *)
(* cancelOrderByCustomer, updateOrderStatusByActor (order service) and the *)
(* seller's updateMedicine (medicine service), run by request handlers     *)
(* against one PostgreSQL store.  Every handler reads in one step and      *)
(* writes in a later one; between the two another handler may commit: the  *)
(* transactions run at the store's default isolation, read committed, and  *)
(* the reads take no row lock.  A stock decrement or increment is relative *)
(* to the row as committed when the writing transaction commits.           *)
(* Prices are whole numbers; a medicine is deleted by deleteMedicine only. *)
(***************************************************************************)
EXTENDS Integers, Sequences, FiniteSets, TLC

VARIABLES
    medicines,  \* medicine rows: price, stock, isActive, sellerId
    carts,      \* per customer: whether the cart row exists, and its cart items in row order
    orders,     \* order rows in creation order, each with its order items; the id is the index
    req,        \* per request handler: the request it is serving and what it has read
    resp,       \* the last response sent: the request's arguments and the status code
    stock0,     \* history: every medicine's stock in the initial state
    undo,       \* history: the stock before the last createOrder commit, until another commit
    reviews,    \* review rows in creation order: userId, medicineId, rating
    restored    \* history: the orders whose cancelOrderByCustomer transaction committed

vars == <<medicines, carts, orders, req, resp, stock0, undo, reviews, restored>>

(* ------------------------------ bounds ------------------------------- *)
MaxStock == 2
MaxQty == 2
MaxOrders == 1
MaxRaceOrders == 2
NewPrice == 7
MaxRating == 5

(* ----------------------------- universe ------------------------------ *)
Customers == {"c1", "c2"}
Sellers == {"s1", "s2"}
Admins == {"a1"}
Users == Customers \cup Sellers \cup Admins
Meds == {"m1", "m2"}
Procs == {"p1", "p2"}
SeqProcs == {"p1"}

role(u) == IF u \in Admins THEN "ADMIN" ELSE IF u \in Sellers THEN "SELLER" ELSE "CUSTOMER"

VALID_TRANSITIONS_NoConfirms ==
    [PLACED |-> {"PROCESSING", "CANCELLED"},
     CONFIRMS |-> {"PROCESSING", "CANCELLED"},
     PROCESSING |-> {"SHIPPED", "CANCELLED"},
     SHIPPED |-> {"DELIVERED"},
     DELIVERED |-> {},
     CANCELLED |-> {}]

VALID_TRANSITIONS_Reopen ==
    [PLACED |-> {"PROCESSING", "CANCELLED", "CONFIRMS"},
     CONFIRMS |-> {"PROCESSING", "CANCELLED"},
     PROCESSING |-> {"SHIPPED", "CANCELLED"},
     SHIPPED |-> {"DELIVERED"},
     DELIVERED |-> {},
     CANCELLED |-> {"PLACED"}]

VALID_TRANSITIONS ==
    [PLACED |-> {"PROCESSING", "CANCELLED", "CONFIRMS"},
     CONFIRMS |-> {"PROCESSING", "CANCELLED"},
     PROCESSING |-> {"SHIPPED", "CANCELLED"},
     SHIPPED |-> {"DELIVERED"},
     DELIVERED |-> {},
     CANCELLED |-> {}]

Statuses == DOMAIN VALID_TRANSITIONS

(* String.prototype.toUpperCase on the status spellings a request carries *)
TargetInputs == Statuses \cup {"shipped", "REFUNDED"}

normalizeStatus(s) ==
    CASE s = "shipped" -> "SHIPPED"
      [] OTHER -> s

(* ----------------------------- requests ------------------------------ *)
NoPatch == [price |-> {}, stock |-> {}, isActive |-> {}]

(* a JSON value of a request body as far as Number() tells them apart: a number, a
   string of digits, a boolean (val 1 for true, 0 for false), or no value at all *)
Arg(kind, val) == [kind |-> kind, val |-> val]
NoArg == Arg("undefined", 0)

(* Number(x) when that is an integer; NaN stands for every other result *)
NaN == 0 - 999
ToNumber(x) ==
    CASE x.kind \in {"number", "string", "boolean"} -> x.val
      [] OTHER -> NaN

(* a handler that is not running; a running handler keeps its arguments and what it read *)
Idle ==
    [op |-> "none", pc |-> "idle", user |-> "none", orderId |-> 0, target |-> "none",
     med |-> "none", data |-> NoPatch, shipping |-> <<TRUE, TRUE>>, snap |-> <<>>, total |-> 0,
     found |-> {}, arg |-> NoArg, owner |-> "none", qty |-> 0, price |-> 0, made |-> FALSE]

NoResp ==
    [proc |-> "none", op |-> "none", user |-> "none", orderId |-> 0, target |-> "none",
     med |-> "none", data |-> NoPatch, shipping |-> <<TRUE, TRUE>>, found |-> {}, arg |-> NoArg,
     owner |-> "none", code |-> 0]

Free(p) == req[p].pc = "idle"

(* the handler of p answers with status code c: resp is the last response sent *)
Respond(p, r, c) ==
    /\ req' = [req EXCEPT ![p] = Idle]
    /\ resp' = [proc |-> p, op |-> r.op, user |-> r.user, orderId |-> r.orderId,
                target |-> r.target, med |-> r.med, data |-> r.data,
                shipping |-> r.shipping, found |-> r.found, arg |-> r.arg,
                owner |-> r.owner, code |-> c]

Pend(p, r) ==
    /\ req' = [req EXCEPT ![p] = r]
    /\ UNCHANGED resp

(* --------------------------- pure helpers ---------------------------- *)
(* cart.items with the joined medicine fields, as tx.cart.findUnique returns them *)
LoadCart(u) ==
    [i \in 1..Len(carts[u].items) |->
        [medicineId |-> carts[u].items[i].medicineId,
         quantity |-> carts[u].items[i].quantity,
         cartUnitPrice |-> carts[u].items[i].unitPrice,
         price |-> medicines[carts[u].items[i].medicineId].price,
         stock |-> medicines[carts[u].items[i].medicineId].stock,
         isActive |-> medicines[carts[u].items[i].medicineId].isActive]]

ValidateItemsTwoPass(items) ==
    IF \E i \in 1..Len(items) : ~items[i].isActive THEN 400
    ELSE IF \E i \in 1..Len(items) : items[i].quantity > items[i].stock THEN 409
    ELSE 0

(* the for-loop validating each item: the status code of the first failing line, 0 if none *)
RECURSIVE ValidateItems(_)
ValidateItems(items) ==
    IF items = <<>> THEN 0
    ELSE IF ~Head(items).isActive THEN 400
    ELSE IF Head(items).quantity > Head(items).stock THEN 409
    ELSE ValidateItems(Tail(items))

RECURSIVE OrderTotalStale(_)
OrderTotalStale(items) ==
    IF items = <<>> THEN 0
    ELSE Head(items).cartUnitPrice * Head(items).quantity + OrderTotalStale(Tail(items))

(* cart.items.reduce((total, it) => total + it.medicine.price * it.quantity, 0) *)
RECURSIVE OrderTotal(_)
OrderTotal(items) ==
    IF items = <<>> THEN 0
    ELSE Head(items).price * Head(items).quantity + OrderTotal(Tail(items))

OrderItemsOfStale(items) ==
    [i \in 1..Len(items) |->
        [medicineId |-> items[i].medicineId,
         quantity |-> items[i].quantity,
         unitPrice |-> items[i].cartUnitPrice]]

(* the OrderItem rows created from the loaded cart lines *)
OrderItemsOf(items) ==
    [i \in 1..Len(items) |->
        [medicineId |-> items[i].medicineId,
         quantity |-> items[i].quantity,
         unitPrice |-> items[i].price]]

(* ------------------------- the committed store ----------------------- *)
Db == [medicines |-> medicines, carts |-> carts, orders |-> orders]

TxOutcomeNoRollback(before, attempted, ok) == attempted

(* prisma.$transaction: the callback's writes are committed when it returns, and
   rolled back when it throws *)
TxOutcome(before, attempted, ok) == IF ok THEN attempted ELSE before

Install(db) ==
    /\ medicines' = db.medicines
    /\ carts' = db.carts
    /\ orders' = db.orders

(* stock: { decrement: q } / { increment: q } on the row as committed *)
AddStock(meds, m, d) == [meds EXCEPT ![m].stock = @ + d]

DecrementFirstLine(meds, items) ==
    IF items = <<>> THEN meds
    ELSE AddStock(meds, Head(items).medicineId, 0 - Head(items).quantity)

(* cart.items.map((it) => tx.medicine.update({ stock: { decrement: it.quantity } })) *)
RECURSIVE DecrementAll(_, _)
DecrementAll(meds, items) ==
    IF items = <<>> THEN meds
    ELSE DecrementAll(AddStock(meds, Head(items).medicineId, 0 - Head(items).quantity), Tail(items))

RECURSIVE IncrementFirstByOne(_, _, _)
IncrementFirstByOne(meds, items, n) ==
    IF items = <<>> \/ n = 0 THEN meds
    ELSE IncrementFirstByOne(AddStock(meds, Head(items).medicineId, 1), Tail(items), n - 1)

(* the restock loop, stopped after its first n updates *)
RECURSIVE IncrementFirst(_, _, _)
IncrementFirst(meds, items, n) ==
    IF items = <<>> \/ n = 0 THEN meds
    ELSE IncrementFirst(AddStock(meds, Head(items).medicineId, Head(items).quantity), Tail(items), n - 1)

NoUndo == [orderId |-> 0, stock |-> [m \in Meds |-> 0]]

Pending(op) == Cardinality({p \in Procs : req[p].op = op})

(* ------------------------------ createOrder -------------------------- *)
(* the statements of the transaction body after validation; k of them ran *)
CreateOrderWrites(db, u, snap, total, k) ==
    LET order == [userId |-> u, total |-> total, status |-> "PLACED", items |-> <<>>]
        s1 == [db EXCEPT !.orders = Append(@, order)]
        s2 == [s1 EXCEPT !.orders[Len(s1.orders)].items = OrderItemsOf(snap),
                         !.medicines = DecrementAll(@, snap)]
        s3 == [s2 EXCEPT !.carts[u].items = <<>>]
    IN  CASE k = 0 -> db
          [] k = 1 -> s1
          [] k = 2 -> s2
          [] OTHER -> s3

(* lines 59-97: shipping checks, cart load inside the transaction, item validation *)
CreateOrderStart(p, u, phoneOk, addrOk) ==
    LET r == [Idle EXCEPT !.op = "createOrder", !.user = u, !.shipping = <<phoneOk, addrOk>>]
        items == LoadCart(u)
    IN  /\ Free(p)
        /\ IF ~addrOk THEN Respond(p, r, 400)
           ELSE IF ~phoneOk THEN Respond(p, r, 409)
           ELSE IF ~carts[u].exists THEN Respond(p, r, 400)
           ELSE IF Len(carts[u].items) = 0 THEN Respond(p, r, 400)
           ELSE IF ValidateItems(items) # 0 THEN Respond(p, r, ValidateItems(items))
           ELSE Pend(p, [r EXCEPT !.pc = "co_write", !.snap = items, !.total = OrderTotal(items)])
        /\ UNCHANGED <<medicines, carts, orders, stock0, undo, reviews, restored>>

(* lines 102-163: order, order items with stock decrements, cart clear, commit;
   failAt = 0: every statement succeeds; failAt = k: statement k throws *)
CreateOrderCommit(p, failAt) ==
    LET r == req[p]
        ran == IF failAt = 0 THEN 3 ELSE failAt - 1
        attempted == CreateOrderWrites(Db, r.user, r.snap, r.total, ran)
    IN  /\ r.pc = "co_write"
        /\ Install(TxOutcome(Db, attempted, failAt = 0))
        /\ Respond(p, r, IF failAt = 0 THEN 201 ELSE 500)
        /\ undo' = IF failAt = 0
                   THEN [orderId |-> Len(orders) + 1, stock |-> [m \in Meds |-> medicines[m].stock]]
                   ELSE undo
        /\ UNCHANGED <<stock0, reviews, restored>>

(* -------------------------- cancelOrderByCustomer -------------------- *)
CancelAllowedLoose(current) == current \notin {"SHIPPED", "DELIVERED"}

(* lines 279-284: cancel only when the order is PLACED *)
CancelAllowed(current) == current = "PLACED"

CancelStartGuardFirst(p, u, o) ==
    LET r == [Idle EXCEPT !.op = "cancelOrder", !.user = u, !.orderId = o]
    IN  /\ Free(p)
        /\ IF o > Len(orders) THEN Respond(p, r, 404)
           ELSE IF ~CancelAllowed(orders[o].status) THEN Respond(p, r, 400)
           ELSE IF orders[o].userId # u THEN Respond(p, r, 403)
           ELSE Pend(p, [r EXCEPT !.pc = "cancel_write", !.snap = orders[o].items])
        /\ UNCHANGED <<medicines, carts, orders, stock0, undo, reviews, restored>>

(* lines 263-284: load the order, ownership check, PLACED guard *)
CancelStart(p, u, o) ==
    LET r == [Idle EXCEPT !.op = "cancelOrder", !.user = u, !.orderId = o]
    IN  /\ Free(p)
        /\ IF o > Len(orders) THEN Respond(p, r, 404)
           ELSE IF orders[o].userId # u THEN Respond(p, r, 403)
           ELSE IF ~CancelAllowed(orders[o].status) THEN Respond(p, r, 400)
           ELSE Pend(p, [r EXCEPT !.pc = "cancel_write", !.snap = orders[o].items])
        /\ UNCHANGED <<medicines, carts, orders, stock0, undo, reviews, restored>>

CancelWritesZeroTotal(db, o, items, k) ==
    LET restocked == [db EXCEPT !.medicines = IncrementFirst(@, items, k)]
    IN  IF k > Len(items)
        THEN [restocked EXCEPT !.orders[o].status = normalizeStatus("CANCELLED"),
                               !.orders[o].total = 0]
        ELSE restocked

(* the statements after the guard: one stock increment per order item, then the
   status update; k of them ran *)
CancelWrites(db, o, items, k) ==
    LET restocked == [db EXCEPT !.medicines = IncrementFirst(@, items, k)]
    IN  IF k > Len(items) THEN [restocked EXCEPT !.orders[o].status = normalizeStatus("CANCELLED")]
        ELSE restocked

(* lines 286-305 *)
CancelCommit(p, failAt) ==
    LET r == req[p]
        n == Len(r.snap) + 1
        ran == IF failAt = 0 THEN n ELSE failAt - 1
        attempted == CancelWrites(Db, r.orderId, r.snap, ran)
    IN  /\ r.pc = "cancel_write"
        /\ failAt <= n
        /\ Install(TxOutcome(Db, attempted, failAt = 0))
        /\ Respond(p, r, IF failAt = 0 THEN 200 ELSE 500)
        /\ undo' = IF failAt = 0 THEN NoUndo ELSE undo
        /\ restored' = IF failAt = 0 THEN restored \cup {r.orderId} ELSE restored
        /\ UNCHANGED <<stock0, reviews>>

(* ------------------------ updateOrderStatusByActor ------------------- *)
(* order.items.map((it) => it.medicine.sellerId === user.id): an array of booleans *)
Owns(u, items) == [i \in 1..Len(items) |-> medicines[items[i].medicineId].sellerId = u]

(* !owns, owns an Array: an object is truthy whatever it holds *)
NotOwns(owns) == FALSE

(* lines 339-345 *)
Authorized(u, items) ==
    IF role(u) = "SELLER" THEN ~NotOwns(Owns(u, items))
    ELSE role(u) = "ADMIN"

SameStatusNever(current, upper) == FALSE

(* line 348: the target is the current status *)
SameStatus(current, upper) == current = upper

(* lines 321-365: target check, order load, authorization, no-op, cancel guard, table *)
UpdateStatusStart(p, u, o, newStatus) ==
    LET upper == normalizeStatus(newStatus)
        r == [Idle EXCEPT !.op = "updateStatus", !.user = u, !.orderId = o, !.target = newStatus]
    IN  /\ Free(p)
        /\ IF upper \notin Statuses THEN Respond(p, r, 400)
           ELSE IF o > Len(orders) THEN Respond(p, r, 404)
           ELSE IF ~Authorized(u, orders[o].items) THEN Respond(p, r, 403)
           ELSE IF SameStatus(orders[o].status, upper) THEN Respond(p, r, 200)
           ELSE IF upper = "CANCELLED" /\ orders[o].status \in {"SHIPPED", "DELIVERED"}
                THEN Respond(p, r, 400)
           ELSE IF upper \notin VALID_TRANSITIONS[orders[o].status] THEN Respond(p, r, 400)
           ELSE Pend(p, [r EXCEPT !.pc = "status_write"])
        /\ UNCHANGED <<medicines, carts, orders, stock0, undo, reviews, restored>>

UpdateStatusWritesRestock(db, o, upper) ==
    [db EXCEPT !.orders[o].status = upper,
               !.medicines = IF upper = "CANCELLED"
                             THEN IncrementFirst(@, db.orders[o].items, Len(db.orders[o].items))
                             ELSE @]

(* lines 367-371: tx.order.update({ where: { id: orderId }, data: { status: upper } }) *)
UpdateStatusWrites(db, o, upper) == [db EXCEPT !.orders[o].status = upper]

(* lines 367-375 *)
UpdateStatusCommit(p, ok) ==
    LET r == req[p]
        attempted == UpdateStatusWrites(Db, r.orderId, normalizeStatus(r.target))
    IN  /\ r.pc = "status_write"
        /\ Install(TxOutcome(Db, attempted, ok))
        /\ Respond(p, r, IF ok THEN 200 ELSE 500)
        /\ undo' = IF ok THEN NoUndo ELSE undo
        /\ UNCHANGED <<stock0, reviews, restored>>

(* ------------------------------ updateMedicine ----------------------- *)
(* a field the request leaves undefined is not written *)
Patched(old, field) == IF field = {} THEN old ELSE CHOOSE v \in field : TRUE

SetPrice(v) == [NoPatch EXCEPT !.price = {v}]
SetStock(v) == [NoPatch EXCEPT !.stock = {v}]
SetActive(b) == [NoPatch EXCEPT !.isActive = {b}]

(* medicine.service.ts lines 139-143: load the medicine, 404 when there is no such row,
   ownership check *)
UpdateMedicineStart(p, seller, m, data) ==
    LET r == [Idle EXCEPT !.op = "updateMedicine", !.user = seller, !.med = m, !.data = data]
    IN  /\ Free(p)
        /\ IF m \notin DOMAIN medicines THEN Respond(p, r, 404)
           ELSE IF medicines[m].sellerId # seller THEN Respond(p, r, 403)
           ELSE Pend(p, [r EXCEPT !.pc = "med_write"])
        /\ UNCHANGED <<medicines, carts, orders, stock0, undo, reviews, restored>>

(* medicine.service.ts lines 144-162: prisma.medicine.update with the request's fields *)
UpdateMedicineCommit(p, ok) ==
    LET r == req[p]
        old == medicines[r.med]
        new == [old EXCEPT !.price = Patched(old.price, r.data.price),
                           !.stock = Patched(old.stock, r.data.stock),
                           !.isActive = Patched(old.isActive, r.data.isActive)]
        done == ok /\ r.med \in DOMAIN medicines
    IN  /\ r.pc = "med_write"
        /\ medicines' = IF done THEN [medicines EXCEPT ![r.med] = new] ELSE medicines
        /\ Respond(p, r, IF done THEN 200 ELSE 500)
        /\ undo' = IF done THEN NoUndo ELSE undo
        /\ UNCHANGED <<carts, orders, stock0, reviews, restored>>

(* ------------------- listOrders, getOrder, getOrderStatus ------------ *)
DefaultTake == 50

ListWhereSellerAll(u, o) == role(u) \in {"ADMIN", "SELLER"} \/ orders[o].userId = u

(* the where clause of findMany for each role: none, items.some.medicine.sellerId, userId *)
ListWhere(u, o) ==
    CASE role(u) = "ADMIN" -> TRUE
      [] role(u) = "SELLER" ->
            \E i \in 1..Len(orders[o].items) :
                medicines[orders[o].items[i].medicineId].sellerId = u
      [] OTHER -> orders[o].userId = u

(* findMany with skip 0, take 50, newest first: the ids of the rows returned *)
ListOrders(p, u, ok) ==
    LET match == {o \in 1..Len(orders) : ListWhere(u, o)}
        page == {o \in match : Cardinality({x \in match : x > o}) < DefaultTake}
        r == [Idle EXCEPT !.op = "listOrders", !.user = u, !.found = IF ok THEN page ELSE {}]
    IN  /\ Free(p)
        /\ Respond(p, r, IF ok THEN 200 ELSE 500)
        /\ UNCHANGED <<medicines, carts, orders, stock0, undo, reviews, restored>>

(* order.routes.ts lines 231-255: load by id, then the check of the actor's role *)
GetOrder(p, u, o, ok) ==
    LET r == [Idle EXCEPT !.op = "getOrder", !.user = u, !.orderId = o]
        hasSellerItem == \E i \in 1..Len(orders[o].items) :
                             medicines[orders[o].items[i].medicineId].sellerId = u
    IN  /\ Free(p)
        /\ IF ~ok THEN Respond(p, r, 500)
           ELSE IF o > Len(orders) THEN Respond(p, r, 404)
           ELSE IF role(u) = "ADMIN" THEN Respond(p, [r EXCEPT !.found = {o}], 200)
           ELSE IF role(u) = "SELLER"
                THEN IF ~hasSellerItem THEN Respond(p, r, 403)
                     ELSE Respond(p, [r EXCEPT !.found = {o}], 200)
           ELSE IF orders[o].userId # u THEN Respond(p, r, 403)
           ELSE Respond(p, [r EXCEPT !.found = {o}], 200)
        /\ UNCHANGED <<medicines, carts, orders, stock0, undo, reviews, restored>>

(* order.routes.ts lines 384-401 and the controller, lines 93-104: the service returns
   the row's status or null, and the controller sends 200 with what it got *)
GetOrderStatus(p, u, o, ok) ==
    LET r == [Idle EXCEPT !.op = "getOrderStatus", !.user = u, !.orderId = o,
                          !.found = IF ok /\ o <= Len(orders) THEN {o} ELSE {}]
    IN  /\ Free(p)
        /\ Respond(p, r, IF ok THEN 200 ELSE 500)
        /\ UNCHANGED <<medicines, carts, orders, stock0, undo, reviews, restored>>

(* ------------------------- the order router ------------------------- *)
(* a request that carries no session *)
NoSession == "anon"

authRolesOnly(rules, u) ==
    IF rules # {} /\ (u = NoSession \/ role(u) \notin rules) THEN 403 ELSE 0

(* auth.ts lines 46-78: 403 without a session, 403 when rules are given and the
   session's role is none of them, else next() (0) *)
auth(rules, u) ==
    IF u = NoSession THEN 403
    ELSE IF rules # {} /\ role(u) \notin rules THEN 403
    ELSE 0

UpdateStatusRulesNone == {}

(* router line 9: auth(UserRole.CUSTOMER) *)
CreateOrderRules == {"CUSTOMER"}
(* router lines 10-13: auth() *)
AnyRole == {}
(* router line 16: auth(UserRole.SELLER, UserRole.ADMIN) *)
UpdateStatusRules == {"SELLER", "ADMIN"}

(* the middleware answers and the handler is not called *)
Reject(p, r, c) ==
    /\ Free(p)
    /\ Respond(p, r, c)
    /\ UNCHANGED <<medicines, carts, orders, stock0, undo, reviews, restored>>

(* POST /order *)
PostOrder(p, u, phoneOk, addrOk) ==
    IF auth(CreateOrderRules, u) # 0
    THEN Reject(p, [Idle EXCEPT !.op = "createOrder", !.user = u,
                                !.shipping = <<phoneOk, addrOk>>], auth(CreateOrderRules, u))
    ELSE CreateOrderStart(p, u, phoneOk, addrOk)

(* PATCH /order/:id/cancel *)
PatchCancel(p, u, o) ==
    IF auth(AnyRole, u) # 0
    THEN Reject(p, [Idle EXCEPT !.op = "cancelOrder", !.user = u, !.orderId = o],
                auth(AnyRole, u))
    ELSE CancelStart(p, u, o)

(* PATCH /order/seller/:id/status; the controller answers 400 when the body has no status *)
PatchStatus(p, u, o, status) ==
    LET r == [Idle EXCEPT !.op = "updateStatus", !.user = u, !.orderId = o, !.target = status]
    IN  IF auth(UpdateStatusRules, u) # 0 THEN Reject(p, r, auth(UpdateStatusRules, u))
        ELSE IF status = "" THEN Reject(p, r, 400)
        ELSE UpdateStatusStart(p, u, o, status)

(* GET /order/:id *)
GetOrderRoute(p, u, o, ok) ==
    IF auth(AnyRole, u) # 0
    THEN Reject(p, [Idle EXCEPT !.op = "getOrder", !.user = u, !.orderId = o], auth(AnyRole, u))
    ELSE GetOrder(p, u, o, ok)

(* -------------------------------- updateStock ----------------------- *)
(* medicine.service.ts line 178: typeof stock === "number" and stock >= 0 *)
StockValueOk(stock) == stock >= 0

(* medicine.service.ts lines 177-184: value check, load the medicine, ownership check *)
UpdateStockStart(p, seller, m, stock) ==
    LET r == [Idle EXCEPT !.op = "updateStock", !.user = seller, !.med = m, !.data = SetStock(stock)]
    IN  /\ Free(p)
        /\ IF ~StockValueOk(stock) THEN Respond(p, r, 400)
           ELSE IF m \notin DOMAIN medicines THEN Respond(p, r, 404)
           ELSE IF medicines[m].sellerId # seller THEN Respond(p, r, 403)
           ELSE Pend(p, [r EXCEPT !.pc = "stock_write"])
        /\ UNCHANGED <<medicines, carts, orders, stock0, undo, reviews, restored>>

(* medicine.service.ts lines 186-193: prisma.medicine.update({ data: { stock } }) *)
UpdateStockCommit(p, ok) ==
    LET r == req[p]
        done == ok /\ r.med \in DOMAIN medicines
    IN  /\ r.pc = "stock_write"
        /\ medicines' = IF done THEN [medicines EXCEPT ![r.med].stock = Patched(@, r.data.stock)]
                        ELSE medicines
        /\ Respond(p, r, IF done THEN 200 ELSE 500)
        /\ undo' = IF done THEN NoUndo ELSE undo
        /\ UNCHANGED <<carts, orders, stock0, reviews, restored>>

(* ------------------------------ deleteMedicine ---------------------- *)
DeleteMedicineStartNoOwnerCheck(p, seller, m) ==
    LET r == [Idle EXCEPT !.op = "deleteMedicine", !.user = seller, !.med = m]
    IN  /\ Free(p)
        /\ IF m \notin DOMAIN medicines THEN Respond(p, r, 404)
           ELSE Pend(p, [r EXCEPT !.pc = "med_delete"])
        /\ UNCHANGED <<medicines, carts, orders, stock0, undo, reviews, restored>>

(* medicine.service.ts lines 165-168: load the medicine, 404, ownership check *)
DeleteMedicineStart(p, seller, m) ==
    LET r == [Idle EXCEPT !.op = "deleteMedicine", !.user = seller, !.med = m]
    IN  /\ Free(p)
        /\ IF m \notin DOMAIN medicines THEN Respond(p, r, 404)
           ELSE IF medicines[m].sellerId # seller THEN Respond(p, r, 403)
           ELSE Pend(p, [r EXCEPT !.pc = "med_delete"])
        /\ UNCHANGED <<medicines, carts, orders, stock0, undo, reviews, restored>>

(* the foreign keys cart_item_medicineId_fkey and order_item_medicineId_fkey are
   ON DELETE RESTRICT: a medicine with a cart item or an order item cannot be deleted *)
Referenced(m) ==
    \/ \E u \in Customers : \E i \in 1..Len(carts[u].items) : carts[u].items[i].medicineId = m
    \/ \E o \in 1..Len(orders) : \E i \in 1..Len(orders[o].items) :
           orders[o].items[i].medicineId = m

(* medicine.service.ts lines 170-174: prisma.medicine.delete, any error of the store is
   answered 500; review_medicineId_fkey is ON DELETE CASCADE *)
DeleteMedicineCommit(p, ok) ==
    LET r == req[p]
        done == ok /\ r.med \in DOMAIN medicines /\ ~Referenced(r.med)
    IN  /\ r.pc = "med_delete"
        /\ medicines' = IF done THEN [x \in DOMAIN medicines \ {r.med} |-> medicines[x]]
                        ELSE medicines
        /\ reviews' = IF done THEN SelectSeq(reviews, LAMBDA v : v.medicineId # r.med)
                      ELSE reviews
        /\ Respond(p, r, IF done THEN 200 ELSE 500)
        /\ UNCHANGED <<carts, orders, stock0, undo, restored>>

(* --------------------------------- cart ----------------------------- *)
Line(m, q, price) == [medicineId |-> m, quantity |-> q, unitPrice |-> price]

Cart(items) == [exists |-> TRUE, items |-> items]

(* a cart item is named by its cart's user and its medicine: the unique pair of the
   cart_item table; the position of the line in the user's cart, 0 if there is none *)
LineOf(u, m) ==
    IF \E i \in 1..Len(carts[u].items) : carts[u].items[i].medicineId = m
    THEN CHOOSE i \in 1..Len(carts[u].items) : carts[u].items[i].medicineId = m
    ELSE 0

AddQtyOkZero(qty) == qty >= 0

(* cart.service.ts line 45: Number.isInteger(qty) and qty > 0 *)
AddQtyOk(qty) == qty >= 1

(* cart.service.ts lines 38-115: quantity check, medicine load, cart and item lookup,
   stock check; quantity ?? 1 *)
AddToCartStart(p, u, m, quantity) ==
    LET qty == IF quantity.kind = "undefined" THEN 1 ELSE ToNumber(quantity)
        i == LineOf(u, m)
        r == [Idle EXCEPT !.op = "addToCart", !.user = u, !.owner = u, !.med = m,
                          !.arg = quantity, !.price = medicines[m].price,
                          !.made = ~carts[u].exists]
    IN  /\ Free(p)
        /\ IF ~AddQtyOk(qty) THEN Respond(p, r, 400)
           ELSE IF ~medicines[m].isActive THEN Respond(p, r, 400)
           ELSE IF i # 0
                THEN IF carts[u].items[i].quantity + qty > medicines[m].stock
                     THEN Respond(p, r, 409)
                     ELSE Pend(p, [r EXCEPT !.pc = "cart_update",
                                            !.qty = carts[u].items[i].quantity + qty])
           ELSE IF qty > medicines[m].stock THEN Respond(p, r, 409)
           ELSE Pend(p, [r EXCEPT !.pc = "cart_create", !.qty = qty])
        /\ UNCHANGED <<medicines, carts, orders, stock0, undo, reviews, restored>>

(* cart.service.ts lines 214-241 *)
UpdateItemStart(p, u, owner, m, quantity) ==
    LET qty == ToNumber(quantity)
        i == LineOf(owner, m)
        r == [Idle EXCEPT !.op = "updateItem", !.user = u, !.owner = owner, !.med = m,
                          !.arg = quantity, !.price = medicines[m].price]
    IN  /\ Free(p)
        /\ IF quantity.kind = "undefined" THEN Respond(p, r, 400)
           ELSE IF qty < 0 THEN Respond(p, r, 400)
           ELSE IF i = 0 THEN Respond(p, r, 404)
           ELSE IF owner # u THEN Respond(p, r, 403)
           ELSE IF ~medicines[m].isActive THEN Respond(p, r, 400)
           ELSE IF qty = 0 THEN Pend(p, [r EXCEPT !.pc = "cart_delete"])
           ELSE IF qty > medicines[m].stock THEN Respond(p, r, 409)
           ELSE Pend(p, [r EXCEPT !.pc = "cart_update", !.qty = qty])
        /\ UNCHANGED <<medicines, carts, orders, stock0, undo, reviews, restored>>

RemoveItemStartNoOwnerCheck(p, u, owner, m) ==
    LET r == [Idle EXCEPT !.op = "removeItem", !.user = u, !.owner = owner, !.med = m]
    IN  /\ Free(p)
        /\ IF LineOf(owner, m) = 0 THEN Respond(p, r, 404)
           ELSE Pend(p, [r EXCEPT !.pc = "cart_delete"])
        /\ UNCHANGED <<medicines, carts, orders, stock0, undo, reviews, restored>>

(* cart.service.ts lines 275-285 *)
RemoveItemStart(p, u, owner, m) ==
    LET r == [Idle EXCEPT !.op = "removeItem", !.user = u, !.owner = owner, !.med = m]
    IN  /\ Free(p)
        /\ IF LineOf(owner, m) = 0 THEN Respond(p, r, 404)
           ELSE IF owner # u THEN Respond(p, r, 403)
           ELSE Pend(p, [r EXCEPT !.pc = "cart_delete"])
        /\ UNCHANGED <<medicines, carts, orders, stock0, undo, reviews, restored>>

(* the write of the three cart handlers: cart.create and cartItem.create (lines 74,
   117-123), cartItem.update (88-93, 243-245), cartItem.delete (237, 287).  The unique
   indexes on cart(userId) and cart_item(cartId, medicineId) make a create throw when
   the row was committed meanwhile; update and delete throw when the row is gone *)
CartCommit(p, ok) ==
    LET r == req[p]
        i == LineOf(r.owner, r.med)
        items == carts[r.owner].items
        thrown == \/ r.made /\ carts[r.owner].exists
                  \/ r.pc = "cart_create" /\ i # 0
                  \/ r.pc \in {"cart_update", "cart_delete"} /\ i = 0
        stored == ok /\ ~thrown
        written == CASE r.pc = "cart_create" ->
                          Append(items, Line(r.med, r.qty, r.price))
                     [] r.pc = "cart_update" ->
                          [items EXCEPT ![i].quantity = r.qty, ![i].unitPrice = r.price]
                     [] OTHER -> SubSeq(items, 1, i - 1) \o SubSeq(items, i + 1, Len(items))
    IN  /\ r.pc \in {"cart_create", "cart_update", "cart_delete"}
        /\ carts' = IF stored THEN [carts EXCEPT ![r.owner] = Cart(written)] ELSE carts
        /\ Respond(p, r, IF ~stored THEN 500 ELSE IF r.op = "addToCart" THEN 201 ELSE 200)
        /\ UNCHANGED <<medicines, orders, stock0, undo, reviews, restored>>

(* -------------------------------- reviews --------------------------- *)
(* review.service.ts lines 26-32: Number(r) must be an integer from 1 to 5 *)
validateRating(r) == ToNumber(r) \in 1..5

HasDeliveredAnyStatus(u, m) ==
    \E o \in 1..Len(orders) :
        /\ orders[o].userId = u
        /\ \E i \in 1..Len(orders[o].items) : orders[o].items[i].medicineId = m

(* lines 46-53: order.findFirst({ userId, status: "DELIVERED", items: { some: { medicineId } } }) *)
HasDelivered(u, m) ==
    \E o \in 1..Len(orders) :
        /\ orders[o].userId = u
        /\ orders[o].status = "DELIVERED"
        /\ \E i \in 1..Len(orders[o].items) : orders[o].items[i].medicineId = m

(* review.findUnique({ where: { userId_medicineId } }): the row's position, 0 if none *)
ReviewOf(u, m) ==
    IF \E i \in 1..Len(reviews) : reviews[i].userId = u /\ reviews[i].medicineId = m
    THEN CHOOSE i \in 1..Len(reviews) : reviews[i].userId = u /\ reviews[i].medicineId = m
    ELSE 0

(* lines 35-64: rating check, DELIVERED order check, existing review check *)
CreateReviewStart(p, u, m, rating) ==
    LET r == [Idle EXCEPT !.op = "createReview", !.user = u, !.med = m, !.arg = rating]
    IN  /\ Free(p)
        /\ IF ~validateRating(rating) THEN Respond(p, r, 400)
           ELSE IF ~HasDelivered(u, m) THEN Respond(p, r, 403)
           ELSE IF ReviewOf(u, m) # 0 THEN Respond(p, r, 409)
           ELSE Pend(p, [r EXCEPT !.pc = "review_write"])
        /\ UNCHANGED <<medicines, carts, orders, stock0, undo, reviews, restored>>

(* lines 66-92: review.create; the unique index on (userId, medicineId) makes the
   statement throw when a row of the pair was committed meanwhile *)
CreateReviewCommit(p, ok) ==
    LET r == req[p]
        stored == ok /\ ReviewOf(r.user, r.med) = 0
    IN  /\ r.pc = "review_write"
        /\ reviews' = IF stored
                      THEN Append(reviews, [userId |-> r.user, medicineId |-> r.med,
                                            rating |-> ToNumber(r.arg)])
                      ELSE reviews
        /\ Respond(p, r, IF stored THEN 201 ELSE 500)
        /\ UNCHANGED <<medicines, carts, orders, stock0, undo, restored>>

(* lines 96-137: the rating is checked when the body carries one; the caller's review
   of the medicine is loaded and its rating replaced *)
UpdateReview(p, u, m, rating, ok) ==
    LET r == [Idle EXCEPT !.op = "updateReview", !.user = u, !.med = m, !.arg = rating]
        i == ReviewOf(u, m)
        changes == ok /\ i # 0 /\ rating.kind # "undefined" /\ validateRating(rating)
    IN  /\ Free(p)
        /\ reviews' = IF changes THEN [reviews EXCEPT ![i].rating = ToNumber(rating)]
                      ELSE reviews
        /\ Respond(p, r, IF rating.kind # "undefined" /\ ~validateRating(rating) THEN 400
                         ELSE IF ~ok THEN 500
                         ELSE IF i = 0 THEN 404
                         ELSE 200)
        /\ UNCHANGED <<medicines, carts, orders, stock0, undo, restored>>

(* lines 140-162: the review is loaded by id; its author or an admin deletes it *)
DeleteReview(p, u, id, ok) ==
    LET r == [Idle EXCEPT !.op = "deleteReview", !.user = u, !.orderId = id]
        allowed == id <= Len(reviews) /\ (role(u) = "ADMIN" \/ reviews[id].userId = u)
    IN  /\ Free(p)
        /\ reviews' = IF ok /\ allowed
                      THEN SubSeq(reviews, 1, id - 1) \o SubSeq(reviews, id + 1, Len(reviews))
                      ELSE reviews
        /\ Respond(p, r, IF ~ok THEN 500
                         ELSE IF id > Len(reviews) THEN 404
                         ELSE IF ~allowed THEN 403
                         ELSE 200)
        /\ UNCHANGED <<medicines, carts, orders, stock0, undo, restored>>

(* -------------------------------- Init ------------------------------- *)
InitPrice(m) == IF m = "m1" THEN 10 ELSE 5
SellerOf(m) == IF m = "m1" THEN "s1" ELSE "s2"

(* carts as addMedicineToCart leaves them: at most one line per medicine, quantity >= 1,
   unitPrice the medicine's price when the line was written; a user who never added
   anything has no cart row *)
InitCarts(u) ==
    IF u = "c1"
    THEN {[exists |-> FALSE, items |-> <<>>],
          Cart(<<Line("m1", 1, InitPrice("m1"))>>),
          Cart(<<Line("m1", MaxQty, InitPrice("m1")), Line("m2", 1, InitPrice("m2"))>>),
          Cart(<<Line("m2", 1, InitPrice("m2")), Line("m1", MaxQty, InitPrice("m1"))>>)}
    ELSE {Cart(<<>>), Cart(<<Line("m1", 1, InitPrice("m1"))>>)}

InitStock(m) == IF m = "m1" THEN 0..MaxStock ELSE {1}

Init ==
    /\ \E st \in [Meds -> 0..MaxStock] :
          /\ \A m \in Meds : st[m] \in InitStock(m)
          /\ medicines = [m \in Meds |-> [price |-> InitPrice(m), stock |-> st[m],
                                          isActive |-> TRUE, sellerId |-> SellerOf(m)]]
          /\ stock0 = st
    /\ \E c \in [Customers -> UNION {InitCarts(u) : u \in Customers}] :
          /\ \A u \in Customers : c[u] \in InitCarts(u)
          /\ carts = c
    /\ orders = <<>>
    /\ req = [p \in Procs |-> Idle]
    /\ resp = NoResp
    /\ undo = NoUndo
    /\ reviews = <<>>
    /\ restored = {}

(* --------------------------- specifications -------------------------- *)
(* the requests of each handler, drawn from the given sets; cap bounds the orders *)
CreateOrderStep(P, Shipping, cap) ==
    \/ \E p \in P, u \in Customers, phoneOk \in Shipping, addrOk \in Shipping :
          /\ Len(orders) + Pending("createOrder") < cap
          /\ CreateOrderStart(p, u, phoneOk, addrOk)
    \/ \E p \in P, failAt \in 0..3 : CreateOrderCommit(p, failAt)

CancelStep(P, Actors, cap) ==
    \/ \E p \in P, u \in Actors, o \in 1..cap : CancelStart(p, u, o)
    \/ \E p \in P, failAt \in 0..3 : CancelCommit(p, failAt)

UpdateStatusStep(P, Actors, Targets, cap) ==
    \/ \E p \in P, u \in Actors, o \in 1..cap, t \in Targets :
          UpdateStatusStart(p, u, o, t)
    \/ \E p \in P, ok \in BOOLEAN : UpdateStatusCommit(p, ok)

UpdateMedicineStep(P, Edits) ==
    \/ \E p \in P, s \in Sellers, e \in Edits : UpdateMedicineStart(p, s, e[1], e[2])
    \/ \E p \in P, ok \in BOOLEAN : UpdateMedicineCommit(p, ok)

UpdateStockStep(P, Values) ==
    \/ \E p \in P, s \in Sellers, m \in Meds, v \in Values : UpdateStockStart(p, s, m, v)
    \/ \E p \in P, ok \in BOOLEAN : UpdateStockCommit(p, ok)

DeleteMedicineStep(P) ==
    \/ \E p \in P, s \in Sellers, m \in Meds : DeleteMedicineStart(p, s, m)
    \/ \E p \in P, ok \in BOOLEAN : DeleteMedicineCommit(p, ok)

(* the medicine edits of the sequential runs: a price change and a stock edit on m1, a
   deactivation of m2 *)
SeqEdits == {<<"m1", SetPrice(NewPrice)>>, <<"m1", SetStock(0)>>, <<"m2", SetActive(FALSE)>>}

(* one request at a time: order creation and the medicine edits around it *)
SeqNext ==
    \/ CreateOrderStep(SeqProcs, BOOLEAN, MaxOrders)
    \/ CancelStep(SeqProcs, Customers, MaxOrders)
    \/ UpdateStatusStep(SeqProcs, Admins, {"PROCESSING", "CANCELLED"}, MaxOrders)
    \/ UpdateMedicineStep(SeqProcs, SeqEdits)

SeqSpec == Init /\ [][SeqNext]_vars

(* one request at a time: the status lifecycle with every actor and every target *)
LifecycleNext ==
    \/ CreateOrderStep(SeqProcs, {TRUE}, MaxOrders)
    \/ CancelStep(SeqProcs, Users, MaxOrders + 1)
    \/ UpdateStatusStep(SeqProcs, Users, TargetInputs, MaxOrders + 1)

LifecycleSpec == Init /\ [][LifecycleNext]_vars

(* concurrent createOrder requests *)
CreateNext == CreateOrderStep(Procs, {TRUE}, MaxRaceOrders)

CreateSpec == Init /\ [][CreateNext]_vars

(* concurrent requests of the three order handlers *)
OrderNext ==
    \/ CreateOrderStep(Procs, {TRUE}, MaxRaceOrders)
    \/ CancelStep(Procs, Customers, MaxRaceOrders)
    \/ UpdateStatusStep(Procs, Admins, {"PROCESSING", "CANCELLED"}, MaxRaceOrders)

OrderSpec == Init /\ [][OrderNext]_vars

QueryStep(P, Actors, cap) ==
    \/ \E p \in P, u \in Actors, ok \in BOOLEAN : ListOrders(p, u, ok)
    \/ \E p \in P, u \in Actors, o \in 1..cap, ok \in BOOLEAN : GetOrder(p, u, o, ok)
    \/ \E p \in P, u \in Actors, o \in 1..cap, ok \in BOOLEAN : GetOrderStatus(p, u, o, ok)

(* one request at a time: the read operations between order creation, cancel and the
   admin's status requests *)
QueryNext ==
    \/ CreateOrderStep(SeqProcs, {TRUE}, MaxOrders)
    \/ CancelStep(SeqProcs, Customers, MaxOrders + 1)
    \/ UpdateStatusStep(SeqProcs, Admins, {"PROCESSING", "REFUNDED"}, MaxOrders + 1)
    \/ QueryStep(SeqProcs, Users, MaxOrders + 1)

QuerySpec == Init /\ [][QueryNext]_vars

(* one request at a time, each through the router's middleware, from every user and
   from a caller without a session *)
RouteNext ==
    \/ \E u \in Users \cup {NoSession} :
          /\ Len(orders) + Pending("createOrder") < MaxOrders
          /\ PostOrder("p1", u, TRUE, TRUE)
    \/ \E failAt \in 0..3 : CreateOrderCommit("p1", failAt)
    \/ \E u \in Users \cup {NoSession}, o \in 1..MaxOrders : PatchCancel("p1", u, o)
    \/ \E failAt \in 0..3 : CancelCommit("p1", failAt)
    \/ \E u \in Users \cup {NoSession}, o \in 1..MaxOrders,
          status \in {"PROCESSING", "CANCELLED", "REFUNDED", ""} : PatchStatus("p1", u, o, status)
    \/ \E ok \in BOOLEAN : UpdateStatusCommit("p1", ok)
    \/ \E u \in Users \cup {NoSession}, o \in 1..MaxOrders : GetOrderRoute("p1", u, o, TRUE)

RouteSpec == Init /\ [][RouteNext]_vars

(* the values of quantity a request may carry *)
QuantityInputs == {Arg("number", 0 - 1), Arg("number", 0), Arg("number", 1), NoArg}

CartStep(P, Actors, Owners, Quantities) ==
    \/ \E p \in P, u \in Owners, m \in Meds, x \in Quantities : AddToCartStart(p, u, m, x)
    \/ \E p \in P, u \in Actors, owner \in Owners, m \in Meds, x \in Quantities :
          UpdateItemStart(p, u, owner, m, x)
    \/ \E p \in P, u \in Actors, owner \in Owners, m \in Meds :
          RemoveItemStart(p, u, owner, m)
    \/ \E p \in P, ok \in BOOLEAN : CartCommit(p, ok)

(* one request at a time: the requests on the cart of one customer, by its owner and by
   another customer, order creation, and the seller's deactivation of a medicine *)
CartNext ==
    \/ CartStep(SeqProcs, Customers, {"c1"}, QuantityInputs)
    \/ CreateOrderStep(SeqProcs, {TRUE}, MaxOrders)
    \/ UpdateMedicineStep(SeqProcs, {<<"m1", SetActive(FALSE)>>})

CartSpec == Init /\ [][CartNext]_vars

(* the requests of one customer on the own cart running concurrently with each other
   and with order creation *)
CartRaceNext ==
    \/ CartStep(Procs, {"c1"}, {"c1"}, QuantityInputs \ {NoArg})
    \/ CreateOrderStep(Procs, {TRUE}, MaxOrders)

CartRaceSpec == Init /\ [][CartRaceNext]_vars

(* the values of rating a request may carry *)
RatingInputs ==
    {Arg("number", 0), Arg("number", MaxRating), Arg("number", MaxRating + 1),
     Arg("boolean", 1), NoArg}

ReviewStep(P, Actors, Ratings) ==
    \/ \E p \in P, u \in Actors, m \in Meds, x \in Ratings : CreateReviewStart(p, u, m, x)
    \/ \E p \in P, ok \in BOOLEAN : CreateReviewCommit(p, ok)
    \/ \E p \in P, u \in Actors, m \in Meds, x \in Ratings, ok \in BOOLEAN :
          UpdateReview(p, u, m, x, ok)
    \/ \E p \in P, u \in Actors \cup Admins, id \in 1..Cardinality(Meds), ok \in BOOLEAN :
          DeleteReview(p, u, id, ok)

(* one request at a time: orders are created, moved to DELIVERED or cancelled, and
   customers write, change and delete reviews *)
ReviewNext ==
    \/ CreateOrderStep(SeqProcs, {TRUE}, MaxOrders)
    \/ CancelStep(SeqProcs, Customers, MaxOrders)
    \/ UpdateStatusStep(SeqProcs, Admins, {"PROCESSING", "SHIPPED", "DELIVERED", "CANCELLED"},
                        MaxOrders)
    \/ ReviewStep(SeqProcs, Customers, RatingInputs)

ReviewSpec == Init /\ [][ReviewNext]_vars

(* a seller's stock edits running concurrently with order creation and cancellation *)
StockEditNext ==
    \/ CreateOrderStep(Procs, {TRUE}, MaxOrders)
    \/ CancelStep(Procs, Customers, MaxOrders)
    \/ UpdateStockStep(Procs, {MaxStock})
    \/ UpdateMedicineStep(Procs, {<<"m1", SetStock(0)>>})

StockEditSpec == Init /\ [][StockEditNext]_vars

(* the values a seller's request may carry: none is excluded by the route *)
EditValues == {0 - 1, 0}

(* one request at a time: the seller's edits of price and stock with arbitrary values *)
MedicineNext ==
    \/ UpdateMedicineStep(SeqProcs, {<<m, SetPrice(v)>> : m \in Meds, v \in EditValues}
                                     \cup {<<m, SetStock(v)>> : m \in Meds, v \in EditValues})
    \/ UpdateStockStep(SeqProcs, EditValues)

MedicineSpec == Init /\ [][MedicineNext]_vars

(* the edits of the ownership runs: one of each field the claim names *)
OwnerEdits == {<<"m1", SetPrice(NewPrice)>>, <<"m2", SetStock(0)>>, <<"m1", SetActive(FALSE)>>}

(* one request at a time: every seller's updateMedicine, updateStock and deleteMedicine
   requests on every medicine, deleted ones included *)
OwnerNext ==
    \/ UpdateMedicineStep(SeqProcs, OwnerEdits)
    \/ UpdateStockStep(SeqProcs, {0 - 1, MaxStock})
    \/ DeleteMedicineStep(SeqProcs)

OwnerSpec == Init /\ [][OwnerNext]_vars

(* ------------------------------- claims ------------------------------ *)
(* the step answers a request of handler op *)
Answered(op) ==
    /\ resp'.op = op
    /\ \/ resp' # resp
       \/ req[resp'.proc].pc # "idle" /\ req'[resp'.proc].pc = "idle"

(* sum of unitPrice * quantity over order items *)
RECURSIVE SumLines(_)
SumLines(items) ==
    IF items = <<>> THEN 0
    ELSE Head(items).unitPrice * Head(items).quantity + SumLines(Tail(items))

(* the quantity of medicine m in a list of cart lines or order items *)
RECURSIVE QtyOf(_, _)
QtyOf(items, m) ==
    IF items = <<>> THEN 0
    ELSE (IF Head(items).medicineId = m THEN Head(items).quantity ELSE 0) + QtyOf(Tail(items), m)

(* the quantity of medicine m over the items of the orders os *)
RECURSIVE SoldIn(_, _)
SoldIn(os, m) == IF os = <<>> THEN 0 ELSE QtyOf(Head(os).items, m) + SoldIn(Tail(os), m)

(* the transitions table of the specification, section 4.4 *)
AllowedTable ==
    [PLACED |-> {"PROCESSING", "CANCELLED", "CONFIRMS"},
     CONFIRMS |-> {"PROCESSING", "CANCELLED"},
     PROCESSING |-> {"SHIPPED", "CANCELLED"},
     SHIPPED |-> {"DELIVERED"},
     DELIVERED |-> {},
     CANCELLED |-> {}]

SellsIn(u, o) == \E i \in 1..Len(orders[o].items) : SellerOf(orders[o].items[i].medicineId) = u

MayTransition(u, o) == role(u) = "ADMIN" \/ (role(u) = "SELLER" /\ SellsIn(u, o))

(* C1: no overselling under concurrent createOrder requests of different customers: for
   every medicine the quantities in the orders created sum to at most its stock before *)
C1_NoOverselling ==
    (\A i, j \in 1..Len(orders) : i # j => orders[i].userId # orders[j].userId)
       => \A m \in Meds : SoldIn(orders, m) <= stock0[m]

(* C2: every medicine's stock is >= 0 in every state reachable by interleavings of
   createOrder, cancelOrderByCustomer and updateOrderStatusByActor *)
C2_StockNonNegative == \A m \in Meds : medicines[m].stock >= 0

(* C3: createOrder is all-or-nothing: the step in which a createOrder request fails,
   for whatever reason, leaves orders, order items, stock and cart items as they were *)
C3_AllOrNothing ==
    [][(Answered("createOrder") /\ resp'.code # 201)
          => UNCHANGED <<medicines, carts, orders>>]_vars

C3_Witness ==
    /\ resp.op = "createOrder"
    /\ resp.code = 500
    /\ Len(carts[resp.user].items) = 2
    /\ orders = <<>>

(* C4: a successful createOrder appends one PLACED order of the caller with one item per
   cart line (same medicine, same quantity), decrements each medicine's stock by the
   quantity the cart holds of it and no other stock, and empties the cart, whose row stays *)
C4_CreateOrderEffect ==
    [][(Answered("createOrder") /\ resp'.code = 201) =>
          LET u == resp'.user
              lines == carts[u].items
              n == Len(orders')
          IN  /\ n = Len(orders) + 1
              /\ \A i \in 1..Len(orders) : orders'[i] = orders[i]
              /\ orders'[n].userId = u
              /\ orders'[n].status = "PLACED"
              /\ Len(orders'[n].items) = Len(lines)
              /\ \A i \in 1..Len(lines) :
                    /\ orders'[n].items[i].medicineId = lines[i].medicineId
                    /\ orders'[n].items[i].quantity = lines[i].quantity
              /\ \A m \in Meds : medicines'[m].stock = medicines[m].stock - QtyOf(lines, m)
              /\ carts'[u].exists
              /\ carts'[u].items = <<>>
              /\ \A v \in Customers \ {u} : carts'[v] = carts[v]]_vars

C4_Witness ==
    /\ resp.op = "createOrder"
    /\ resp.code = 201
    /\ Len(orders) = 1
    /\ Len(orders[1].items) = 2
    /\ orders[1].total = 10 * MaxQty + 5
    /\ medicines["m1"].stock = stock0["m1"] - MaxQty
    /\ medicines["m2"].stock = stock0["m2"] - 1
    /\ carts[resp.user] = Cart(<<>>)

(* C5: every order's total is the sum of unitPrice * quantity over its items, in every
   state, whatever price edits, stock edits, transitions and cancellations follow *)
C5_TotalIsSum == \A i \in 1..Len(orders) : orders[i].total = SumLines(orders[i].items)

C5_Witness ==
    /\ Len(orders) = 1
    /\ Len(orders[1].items) = 2
    /\ orders[1].status = "CANCELLED"
    /\ \E i \in 1..2 : medicines[orders[1].items[i].medicineId].price # orders[1].items[i].unitPrice
    /\ orders[1].total = SumLines(orders[1].items)

(* C6: a request by an authorized actor for a target status that differs from the current
   one and is not in the transitions table fails with 400 and changes no status, no stock *)
C6_IllegalTransitionRejected ==
    [][(/\ Answered("updateStatus")
        /\ resp'.orderId <= Len(orders)
        /\ normalizeStatus(resp'.target) \in Statuses
        /\ MayTransition(resp'.user, resp'.orderId)
        /\ normalizeStatus(resp'.target) # orders[resp'.orderId].status
        /\ normalizeStatus(resp'.target) \notin AllowedTable[orders[resp'.orderId].status])
          => /\ resp'.code = 400
             /\ UNCHANGED <<orders, medicines>>]_vars

C6_Witness ==
    /\ resp.op = "updateStatus"
    /\ resp.code = 400
    /\ resp.user \in Admins
    /\ resp.orderId <= Len(orders)
    /\ orders[resp.orderId].status = "DELIVERED"
    /\ resp.target = "CANCELLED"

(* C7: a request by an ADMIN for a target in the transitions table of the order's current
   status is never rejected, and when the store commits it the order's status is the
   target and nothing else changes; 500 is the store failing, which changes nothing *)
C7_AdminTransition ==
    [][(/\ Answered("updateStatus")
        /\ resp'.orderId <= Len(orders)
        /\ role(resp'.user) = "ADMIN"
        /\ normalizeStatus(resp'.target) \in AllowedTable[orders[resp'.orderId].status])
          => /\ resp'.code \in {200, 500}
             /\ resp'.code = 200 =>
                   /\ orders' = [orders EXCEPT ![resp'.orderId].status = normalizeStatus(resp'.target)]
                   /\ orders' # orders
             /\ resp'.code = 500 => orders' = orders
             /\ UNCHANGED <<medicines, carts>>]_vars

C7_Witness ==
    /\ resp.op = "updateStatus"
    /\ resp.code = 200
    /\ resp.user \in Admins
    /\ resp.target = "CONFIRMS"
    /\ resp.orderId <= Len(orders)
    /\ orders[resp.orderId].status = "CONFIRMS"

(* C8: a SELLER who sells none of the medicines of an order gets 403 for every target *)
C8_ForeignSellerForbidden ==
    (/\ resp.op = "updateStatus"
     /\ role(resp.user) = "SELLER"
     /\ resp.orderId <= Len(orders)
     /\ normalizeStatus(resp.target) \in Statuses
     /\ ~SellsIn(resp.user, resp.orderId))
       => resp.code = 403

(* C9: the owner's cancel of a PLACED order is never rejected, and when the store commits
   it the status is CANCELLED and every medicine's stock has grown by the quantity the
   order holds of it; right after the order's creation that is the stock before it *)
C9_CancelRestores ==
    [][(/\ Answered("cancelOrder")
        /\ resp'.orderId <= Len(orders)
        /\ orders[resp'.orderId].userId = resp'.user
        /\ orders[resp'.orderId].status = "PLACED")
          => /\ resp'.code \in {200, 500}
             /\ resp'.code = 200 =>
                   /\ orders' = [orders EXCEPT ![resp'.orderId].status = "CANCELLED"]
                   /\ \A m \in Meds :
                         medicines'[m].stock = medicines[m].stock + QtyOf(orders[resp'.orderId].items, m)
                   /\ undo.orderId = resp'.orderId =>
                         \A m \in Meds : medicines'[m].stock = undo.stock[m]
             /\ resp'.code = 500 => UNCHANGED <<orders, medicines>>]_vars

C9_Witness ==
    /\ resp.op = "cancelOrder"
    /\ resp.code = 200
    /\ orders[resp.orderId].status = "CANCELLED"
    /\ Len(orders[resp.orderId].items) = 2
    /\ stock0["m1"] = MaxQty
    /\ \A m \in Meds : medicines[m].stock = stock0[m]

(* C10: the owner's cancel of an order that is not PLACED fails with 400 and changes no
   status and no stock; a second cancel restores nothing *)
C10_CancelOnlyPlaced ==
    [][(/\ Answered("cancelOrder")
        /\ resp'.orderId <= Len(orders)
        /\ orders[resp'.orderId].userId = resp'.user
        /\ orders[resp'.orderId].status # "PLACED")
          => /\ resp'.code = 400
             /\ UNCHANGED <<orders, medicines>>]_vars

C10_Witness ==
    /\ resp.op = "cancelOrder"
    /\ resp.code = 400
    /\ resp.orderId <= Len(orders)
    /\ orders[resp.orderId].userId = resp.user
    /\ orders[resp.orderId].status = "CANCELLED"
    /\ \A m \in Meds : medicines[m].stock = stock0[m]

Terminal == {"DELIVERED", "CANCELLED"}

(* C11: a cancel request by anyone who is not the order's owner - another customer, a
   seller, an admin - is answered 403 whatever the order's status, and changes neither
   an order nor a stock *)
C11_NonOwnerCancelForbidden ==
    [][(/\ Answered("cancelOrder")
        /\ resp'.orderId <= Len(orders)
        /\ orders[resp'.orderId].userId # resp'.user)
          => /\ resp'.code = 403
             /\ UNCHANGED <<orders, medicines>>]_vars

C11_Witness ==
    /\ resp.op = "cancelOrder"
    /\ resp.code = 403
    /\ resp.orderId <= Len(orders)
    /\ resp.user = "a1"
    /\ orders[resp.orderId].status = "SHIPPED"

(* C12: with one request at a time, an order that is DELIVERED or CANCELLED keeps that
   status in every later step *)
C12_TerminalStatusStays ==
    [][\A o \in 1..Len(orders) :
          orders[o].status \in Terminal => orders'[o].status = orders[o].status]_vars

C12_Witness ==
    /\ resp.op = "updateStatus"
    /\ resp.code = 400
    /\ resp.orderId <= Len(orders)
    /\ resp.user = "s1"
    /\ SellsIn("s1", resp.orderId)
    /\ resp.target = "PROCESSING"
    /\ orders[resp.orderId].status = "CANCELLED"

(* C13: with cancel and status requests on the same order running concurrently, every
   change of an order's committed status is an edge of the transition table *)
C13_StatusMovesAlongEdges ==
    [][\A o \in 1..Len(orders) :
          orders'[o].status # orders[o].status
             => orders'[o].status \in AllowedTable[orders[o].status]]_vars

(* C14: a status request whose target is the order's current status, made by an
   authorized actor, succeeds and changes nothing; so repeating a transition request
   that succeeded leaves the state of the first *)
C14_SameStatusIsNoOp ==
    [][(/\ Answered("updateStatus")
        /\ resp'.orderId <= Len(orders)
        /\ MayTransition(resp'.user, resp'.orderId)
        /\ normalizeStatus(resp'.target) = orders[resp'.orderId].status)
          => /\ resp'.code = 200
             /\ UNCHANGED <<orders, medicines, carts>>]_vars

C14_Witness ==
    /\ resp.op = "updateStatus"
    /\ resp.code = 200
    /\ resp.user = "a1"
    /\ resp.target = "CANCELLED"
    /\ orders[resp.orderId].status = "CANCELLED"
    /\ Len(orders[resp.orderId].items) = 2
    /\ \A m \in Meds : medicines[m].stock = stock0[m]

(* C15: no status request changes a stock; an order cancelled by a seller or an admin
   leaves the stock its creation took *)
C15_StatusChangeKeepsStock ==
    [][Answered("updateStatus") => medicines' = medicines]_vars

C15_Witness ==
    /\ resp.op = "updateStatus"
    /\ resp.code = 200
    /\ resp.user = "s1"
    /\ resp.target = "CANCELLED"
    /\ orders[resp.orderId].status = "CANCELLED"
    /\ Len(orders[resp.orderId].items) = 2
    /\ medicines["m1"].stock = stock0["m1"] - MaxQty
    /\ medicines["m2"].stock = stock0["m2"] - 1

(* C16: every change of a medicine's stock is the decrement of a committed createOrder by
   the quantity ordered or the increment of a committed customer cancel by the quantity
   cancelled; no step writes a stock any other way *)
C16_StockMovesOnlyByLedger ==
    [][\A m \in Meds :
          medicines'[m].stock # medicines[m].stock
             => \/ /\ Answered("createOrder")
                   /\ resp'.code = 201
                   /\ medicines'[m].stock = medicines[m].stock - QtyOf(orders'[Len(orders')].items, m)
                \/ /\ Answered("cancelOrder")
                   /\ resp'.code = 200
                   /\ medicines'[m].stock
                         = medicines[m].stock + QtyOf(orders[resp'.orderId].items, m)]_vars

(* C17: whatever values the seller's edit requests carry, every medicine has price >= 0
   and stock >= 0 *)
C17_PriceAndStockNonNegative ==
    \A m \in Meds : medicines[m].price >= 0 /\ medicines[m].stock >= 0

BadLine(l) == ~medicines[l.medicineId].isActive \/ l.quantity > medicines[l.medicineId].stock

(* C18: a createOrder request with valid shipping data is answered 400 when the cart is
   missing or empty; otherwise by the first cart line that is bad: 400 when its medicine
   is inactive, 409 when its quantity exceeds the stock; an order is created only when
   no line is bad *)
C18_FailureClassification ==
    [][(Answered("createOrder") /\ resp'.shipping = <<TRUE, TRUE>>) =>
          LET c == carts[resp'.user]
              lines == c.items
              bad == {i \in 1..Len(lines) : BadLine(lines[i])}
          IN  /\ (~c.exists \/ lines = <<>>) => resp'.code = 400
              /\ bad # {} =>
                    LET f == CHOOSE i \in bad : \A j \in bad : i <= j
                    IN  resp'.code = IF ~medicines[lines[f].medicineId].isActive THEN 400 ELSE 409
              /\ (c.exists /\ lines # <<>> /\ bad = {}) => resp'.code \in {201, 500}
              /\ resp'.code = 201 => (c.exists /\ lines # <<>> /\ bad = {})]_vars

C18_Witness ==
    /\ resp.op = "createOrder"
    /\ resp.code = 409
    /\ resp.user = "c1"
    /\ Len(carts["c1"].items) = 2
    /\ carts["c1"].items[1].medicineId = "m1"
    /\ carts["c1"].items[1].quantity > medicines["m1"].stock
    /\ ~medicines["m2"].isActive
    /\ orders = <<>>

(* C19: a createOrder request whose shippingPhone or shippingAddress is missing is
   answered 400, and 409 is the answer only of a request with both present *)
C19_MissingShippingIs400 ==
    resp.op = "createOrder" =>
        /\ resp.shipping # <<TRUE, TRUE>> => resp.code = 400
        /\ resp.code = 409 => resp.shipping = <<TRUE, TRUE>>

(* C20: a created order takes each item's unitPrice from the medicine's price when the
   order is created, and its total is the sum of those prices times the quantities,
   whatever unitPrice the cart lines stored *)
C20_OrderUsesCurrentPrice ==
    [][(Answered("createOrder") /\ resp'.code = 201) =>
          LET lines == carts[resp'.user].items
              new == orders'[Len(orders')]
              Cost[i \in 0..Len(lines)] ==
                  IF i = 0 THEN 0
                  ELSE Cost[i - 1] + medicines[lines[i].medicineId].price * lines[i].quantity
          IN  /\ Len(new.items) = Len(lines)
              /\ \A i \in 1..Len(lines) :
                    new.items[i].unitPrice = medicines[lines[i].medicineId].price
              /\ new.total = Cost[Len(lines)]]_vars

C20_Witness ==
    /\ resp.op = "createOrder"
    /\ resp.code = 201
    /\ Len(orders) = 1
    /\ Len(orders[1].items) = 2
    /\ NewPrice # InitPrice("m1")
    /\ \E i \in 1..2 : /\ orders[1].items[i].medicineId = "m1"
                        /\ orders[1].items[i].unitPrice = NewPrice
    /\ orders[1].total = NewPrice * MaxQty + InitPrice("m2")

(* C21: no step removes an order or changes an existing order's userId, total or items
   (medicineId, quantity, unitPrice): only its status may change, whatever cancel,
   status request or medicine edit the step belongs to *)
C21_OrderImmutableButStatus ==
    [][/\ Len(orders') >= Len(orders)
       /\ \A o \in 1..Len(orders) :
             orders'[o] = [orders[o] EXCEPT !.status = orders'[o].status]]_vars

C21_Witness ==
    /\ resp.op = "cancelOrder"
    /\ resp.code = 200
    /\ Len(orders) = 1
    /\ orders[1].status = "CANCELLED"
    /\ orders[1].total = InitPrice("m1")
    /\ orders[1].items = <<Line("m1", 1, InitPrice("m1"))>>
    /\ medicines["m1"].price = NewPrice
    /\ NewPrice # InitPrice("m1")

(* C30: whatever the interleaving of cancel requests, a reservation is given back at
   most once: with no seller edit of stock, no medicine's stock exceeds its initial one *)
C30_RestoredAtMostOnce == \A m \in Meds : medicines[m].stock <= stock0[m]

InScope(u, o) ==
    \/ role(u) = "ADMIN"
    \/ role(u) = "SELLER" /\ SellsIn(u, o)
    \/ role(u) = "CUSTOMER" /\ orders[o].userId = u

(* C23: a successful listOrders returns exactly the orders in the actor's scope: the
   customer's own, those holding an item of the seller's, all of them for an admin
   (fewer orders exist than one page holds) *)
C23_ListOrdersScoped ==
    (resp.op = "listOrders" /\ resp.code = 200)
        => resp.found = {o \in 1..Len(orders) : InScope(resp.user, o)}

C23_Witness ==
    /\ resp.op = "listOrders"
    /\ resp.code = 200
    /\ resp.user = "s2"
    /\ Len(orders) = 1
    /\ resp.found = {}

(* C24: getOrder on an existing order that is outside the actor's scope is answered 404,
   as for an order that does not exist, and returns nothing *)
C24_InvisibleOrderIs404 ==
    (/\ resp.op = "getOrder"
     /\ resp.code # 500
     /\ resp.orderId <= Len(orders)
     /\ ~InScope(resp.user, resp.orderId))
        => resp.code = 404 /\ resp.found = {}

(* C25: getOrder, cancelOrderByCustomer, updateOrderStatusByActor with a valid target
   and getOrderStatus, given the id of no order, are answered 404 *)
C25_MissingOrderIs404 ==
    (/\ resp.op \in {"getOrder", "cancelOrder", "updateStatus", "getOrderStatus"}
     /\ resp.code # 500
     /\ resp.op = "updateStatus" => normalizeStatus(resp.target) \in Statuses
     /\ resp.orderId > Len(orders))
        => resp.code = 404

AnsweredAny ==
    /\ resp'.op # "none"
    /\ \/ resp' # resp
       \/ req[resp'.proc].pc # "idle" /\ req'[resp'.proc].pc = "idle"

(* C22: a status request of a customer is answered 403 for every order and every target
   and changes no order; every change of a status in a step that answers a customer is
   PLACED -> CANCELLED of the customer's own order by the cancel request *)
C22_CustomerNeverTransitions ==
    [][/\ (Answered("updateStatus") /\ resp'.user \in Customers)
            => resp'.code = 403 /\ UNCHANGED <<orders, medicines>>
       /\ \A o \in 1..Len(orders) :
             (AnsweredAny /\ resp'.user \in Customers /\ orders'[o].status # orders[o].status)
                => /\ resp'.op = "cancelOrder"
                   /\ resp'.orderId = o
                   /\ orders[o].userId = resp'.user
                   /\ orders[o].status = "PLACED"
                   /\ orders'[o].status = "CANCELLED"]_vars

C22_Witness ==
    /\ resp.op = "updateStatus"
    /\ resp.code = 403
    /\ resp.user = "c1"
    /\ resp.target = "REFUNDED"
    /\ resp.orderId <= Len(orders)
    /\ orders[resp.orderId].userId = "c1"
    /\ orders[resp.orderId].status = "PLACED"

Admitted(op, u) ==
    /\ u # NoSession
    /\ op = "createOrder" => role(u) = "CUSTOMER"
    /\ op = "updateStatus" => role(u) \in {"SELLER", "ADMIN"}

(* C29: a request without a session, a createOrder request of a seller or an admin and
   a status request of a customer are answered 403 and change no state, and no handler
   ever runs for such a request *)
C29_OnlyAdmittedActorsReachHandlers ==
    [][/\ (AnsweredAny /\ ~Admitted(resp'.op, resp'.user))
            => resp'.code = 403 /\ UNCHANGED <<medicines, carts, orders>>
       /\ \A p \in DOMAIN req :
             req'[p].pc # "idle" => Admitted(req'[p].op, req'[p].user)]_vars

C29_Witness ==
    /\ resp.op = "cancelOrder"
    /\ resp.code = 403
    /\ resp.user = NoSession
    /\ resp.orderId <= Len(orders)
    /\ orders[resp.orderId].status = "PLACED"

(* C26: at most one review per (userId, medicineId); every rating is from 1 to 5; a
   review is created only by a createReview of its author who has a DELIVERED order
   holding the medicine; a createReview with a valid rating for a pair that has a review
   is answered 409 and changes no review.  (No review exists initially.) *)
C26_ReviewGate ==
    [][/\ \A i, j \in 1..Len(reviews') :
             (reviews'[i].userId = reviews'[j].userId
                /\ reviews'[i].medicineId = reviews'[j].medicineId) => i = j
       /\ \A i \in 1..Len(reviews') : reviews'[i].rating \in 1..5
       /\ Len(reviews') > Len(reviews) =>
             LET new == reviews'[Len(reviews')]
             IN  /\ reviews' = Append(reviews, new)
                 /\ Answered("createReview")
                 /\ resp'.code = 201
                 /\ new.userId = resp'.user
                 /\ new.medicineId = resp'.med
                 /\ \E o \in 1..Len(orders) :
                       /\ orders[o].userId = new.userId
                       /\ orders[o].status = "DELIVERED"
                       /\ QtyOf(orders[o].items, new.medicineId) > 0
       /\ (/\ Answered("createReview")
           /\ ToNumber(resp'.arg) \in 1..5
           /\ \E i \in 1..Len(reviews) :
                 reviews[i].userId = resp'.user /\ reviews[i].medicineId = resp'.med)
             => resp'.code = 409 /\ reviews' = reviews]_vars

C26_Witness ==
    /\ resp.op = "createReview"
    /\ resp.code = 409
    /\ resp.user = "c1"
    /\ resp.med = "m2"
    /\ Len(reviews) = 2
    /\ reviews[1].rating = 1

(* C27: every cart has at most one item per medicine and every cart item's quantity is
   an integer >= 1, whatever cart requests and order creations ran, also concurrently;
   a user's cart is one row, which exists once it has held an item *)
C27_CartWellFormed ==
    \A u \in Customers :
        /\ \A i, j \in 1..Len(carts[u].items) :
              carts[u].items[i].medicineId = carts[u].items[j].medicineId => i = j
        /\ \A i \in 1..Len(carts[u].items) :
              carts[u].items[i].quantity \in Nat \ {0}
        /\ carts[u].items # <<>> => carts[u].exists

C27_Witness ==
    /\ resp.op = "addToCart"
    /\ resp.code = 201
    /\ resp.user = "c1"
    /\ Len(carts["c1"].items) = 2
    /\ \E i \in 1..2 : /\ carts["c1"].items[i].medicineId = resp.med
                        /\ carts["c1"].items[i].quantity = 2
    /\ Len(orders) = 1

(* C28: after updateItem with quantity 0 by the item's owner has been answered, the
   store not failing, the cart holds no item of that medicine, whatever the medicine's
   state *)
C28_ZeroQuantityDeletes ==
    (/\ resp.op = "updateItem"
     /\ resp.user = resp.owner
     /\ resp.arg = Arg("number", 0)
     /\ resp.code # 500)
        => LineOf(resp.owner, resp.med) = 0

(* C31: in every committed state, whatever the interleaving of an owner's cancellation
   with a seller's or admin's status update on the same order, an order whose stock was
   restored by cancelOrderByCustomer has the status CANCELLED, none of PROCESSING,
   CONFIRMS, SHIPPED, DELIVERED *)
C31_RestoredOnlyIfCancelled ==
    \A o \in restored :
        orders[o].status \notin {"PROCESSING", "CONFIRMS", "SHIPPED", "DELIVERED"}

(* C32: the same customer's concurrent createOrder requests against one cart content
   create at most one order (no request refills a cart here, so every customer has one
   cart content), and the stock is decremented by the created orders' lines and no more,
   so at most once for every cart line *)
C32_OneOrderPerCart ==
    /\ \A u \in Customers : Cardinality({o \in 1..Len(orders) : orders[o].userId = u}) <= 1
    /\ \A m \in Meds : stock0[m] - medicines[m].stock = SoldIn(orders, m)

(* C33: whatever the interleaving with the same customer's cart requests, every cart
   item that a createOrder commit deletes is an order item of the order it creates,
   with the same medicine and quantity *)
C33_ClearsOnlyWhatItOrdered ==
    [][Len(orders') > Len(orders) =>
          LET new == orders'[Len(orders')]
              before == carts[new.userId].items
              after == carts'[new.userId].items
          IN  \A i \in 1..Len(before) :
                  (\E k \in 1..Len(after) : after[k] = before[i])
                  \/ \E j \in 1..Len(new.items) :
                        /\ new.items[j].medicineId = before[i].medicineId
                        /\ new.items[j].quantity = before[i].quantity]_vars

RECURSIVE HeldUpTo(_, _)
(* the units of medicine m in the lines of the orders 1..n that were not cancelled
   through cancelOrderByCustomer *)
HeldUpTo(n, m) ==
    IF n = 0 THEN 0
    ELSE (IF n \in restored THEN 0 ELSE QtyOf(orders[n].items, m)) + HeldUpTo(n - 1, m)

(* C34: with one request at a time and no seller stock edit, every medicine's initial
   stock equals its current stock plus the quantities of it in the lines of the orders
   not cancelled through cancelOrderByCustomer; an order cancelled by a seller or an
   admin keeps holding its units *)
C34_StockConservation ==
    \A m \in Meds : stock0[m] = medicines[m].stock + HeldUpTo(Len(orders), m)

C34_Witness ==
    /\ resp.op = "updateStatus"
    /\ resp.code = 200
    /\ normalizeStatus(resp.target) = "CANCELLED"
    /\ role(resp.user) = "SELLER"
    /\ Len(orders) = 1
    /\ orders[1].status = "CANCELLED"
    /\ 1 \notin restored
    /\ QtyOf(orders[1].items, "m1") = MaxQty
    /\ medicines["m1"].stock = stock0["m1"] - MaxQty

(* the number of status changes after which an order can have the status at the earliest
   along the longest chain PLACED, CONFIRMS, PROCESSING, SHIPPED, DELIVERED *)
StatusRank(s) ==
    CASE s = "PLACED" -> 0
      [] s = "CONFIRMS" -> 1
      [] s = "PROCESSING" -> 2
      [] s = "SHIPPED" -> 3
      [] OTHER -> 4

(* C35: with one request at a time, every change of an order's status moves it to a
   status of a higher rank, the ranks being 0 to 4: so an order changes status at most
   4 times and never returns to a status it has left; and an order in PLACED, CONFIRMS,
   PROCESSING or SHIPPED always has a target the table allows, and such a request by an
   admin that the store serves changes the status *)
C35_LifecycleFinite ==
    [][/\ \A o \in 1..Len(orders) :
             orders'[o].status # orders[o].status
                => StatusRank(orders'[o].status) > StatusRank(orders[o].status)
       /\ \A o \in 1..Len(orders') :
             orders'[o].status \in {"PLACED", "CONFIRMS", "PROCESSING", "SHIPPED"}
                => VALID_TRANSITIONS[orders'[o].status] # {}
       /\ (/\ Answered("updateStatus")
           /\ resp'.orderId <= Len(orders)
           /\ role(resp'.user) = "ADMIN"
           /\ resp'.code = 200
           /\ normalizeStatus(resp'.target) \in VALID_TRANSITIONS[orders[resp'.orderId].status])
             => orders'[resp'.orderId].status = normalizeStatus(resp'.target)]_vars

C35_Witness ==
    /\ resp.op = "updateStatus"
    /\ resp.code = 200
    /\ resp.target = "DELIVERED"
    /\ resp.orderId <= Len(orders)
    /\ orders[resp.orderId].status = "DELIVERED"
    /\ StatusRank(orders[resp.orderId].status) = 4

(* C36: updateOrderStatusByActor reports the first failing check of a fixed order: a
   target that is none of the six status names is answered 400 even for a missing order;
   otherwise a missing order is answered 404; otherwise an actor who is neither an admin
   nor a seller of one of the order's medicines is answered 403, also when the target is
   the current status or no edge of the table; and no failure changes an order or a
   stock *)
C36_ChecksInOrder ==
    [][Answered("updateStatus") =>
          LET t == normalizeStatus(resp'.target)
              o == resp'.orderId
          IN  /\ t \notin Statuses => resp'.code = 400
              /\ (t \in Statuses /\ o > Len(orders)) => resp'.code = 404
              /\ (t \in Statuses /\ o <= Len(orders) /\ ~MayTransition(resp'.user, o))
                    => resp'.code = 403
              /\ resp'.code \in {400, 403, 404, 500} => UNCHANGED <<orders, medicines>>]_vars

SellerOps == {"updateMedicine", "deleteMedicine", "updateStock"}

(* C37 as stated: updateMedicine, deleteMedicine and updateStock answer 404 for a missing
   medicine and 403 for a seller who does not own it, and then change no medicine *)
C37_OnlyOwnerChanges ==
    [][(\E op \in SellerOps : Answered(op)) =>
          /\ resp'.med \notin DOMAIN medicines => resp'.code = 404 /\ medicines' = medicines
          /\ (resp'.med \in DOMAIN medicines /\ medicines[resp'.med].sellerId # resp'.user)
                => resp'.code = 403 /\ medicines' = medicines]_vars

(* C37, amended: the same, except that updateStock with a negative stock value is
   answered 400 before the medicine is looked up, whoever calls and whether or not the
   medicine exists; it changes no medicine either *)
C37_OnlyOwnerChangesAfterValueCheck ==
    [][(\E op \in SellerOps : Answered(op)) =>
          IF resp'.op = "updateStock" /\ \E v \in resp'.data.stock : v < 0
          THEN resp'.code = 400 /\ medicines' = medicines
          ELSE /\ resp'.med \notin DOMAIN medicines
                     => resp'.code = 404 /\ medicines' = medicines
               /\ (resp'.med \in DOMAIN medicines
                     /\ medicines[resp'.med].sellerId # resp'.user)
                     => resp'.code = 403 /\ medicines' = medicines]_vars

C37_Witness ==
    /\ resp.op = "deleteMedicine"
    /\ resp.code = 403
    /\ resp.user = "s1"
    /\ resp.med = "m2"
    /\ "m2" \in DOMAIN medicines
    /\ "m1" \notin DOMAIN medicines

(* the quantity of an updateItem request is present and a non-negative integer *)
ItemQtyOk(arg) == arg.kind # "undefined" /\ ToNumber(arg) >= 0

(* the quantity a cart request carries; addMedicineToCart takes 1 for a missing one *)
RequestQty(arg) == IF arg.kind = "undefined" THEN 1 ELSE ToNumber(arg)

(* the quantity the cart line would have after the request *)
ResultingQty(op, owner, m, arg) ==
    LET i == LineOf(owner, m)
    IN  IF op = "addToCart" /\ i # 0
        THEN carts[owner].items[i].quantity + RequestQty(arg)
        ELSE RequestQty(arg)

(* what C38 says of the owner's addMedicineToCart and updateItem requests with a
   well-formed quantity: 400 for an inactive medicine, 409 for a resulting quantity above
   the stock, the cart unchanged *)
OwnerRequestChecked ==
    (/\ Answered("addToCart") \/ Answered("updateItem")
     /\ resp'.user = resp'.owner
     /\ resp'.op = "updateItem" => ItemQtyOk(resp'.arg) /\ LineOf(resp'.owner, resp'.med) # 0
     /\ resp'.op = "addToCart" => AddQtyOk(RequestQty(resp'.arg)))
       => /\ ~medicines[resp'.med].isActive => resp'.code = 400 /\ carts' = carts
          /\ (/\ medicines[resp'.med].isActive
              /\ ResultingQty(resp'.op, resp'.owner, resp'.med, resp'.arg)
                    > medicines[resp'.med].stock)
                => resp'.code = 409 /\ carts' = carts

(* C38 as stated: updateItem and removeItem called on an item by a user who does not own
   its cart are answered 403 and change no cart; and the owner's requests are checked
   against the medicine's state *)
C38_OnlyOwnerChangesItem ==
    [][/\ (/\ Answered("updateItem") \/ Answered("removeItem")
           /\ LineOf(resp'.owner, resp'.med) # 0
           /\ resp'.user # resp'.owner)
             => resp'.code = 403 /\ carts' = carts
       /\ OwnerRequestChecked]_vars

(* C38, amended: updateItem first checks its quantity, and answers 400 for a missing or
   negative one whoever calls; with a well-formed quantity, and for removeItem, another
   user's request on an item is answered 403; none of these changes a cart *)
C38_OnlyOwnerChangesItemAfterQtyCheck ==
    [][/\ (/\ Answered("updateItem") \/ Answered("removeItem")
           /\ LineOf(resp'.owner, resp'.med) # 0
           /\ resp'.user # resp'.owner)
             => /\ carts' = carts
                /\ resp'.code = IF resp'.op = "updateItem" /\ ~ItemQtyOk(resp'.arg)
                                THEN 400 ELSE 403
       /\ OwnerRequestChecked]_vars

C38_Witness ==
    /\ resp.op = "removeItem"
    /\ resp.code = 403
    /\ resp.user = "c2"
    /\ resp.owner = "c1"
    /\ LineOf("c1", resp.med) # 0
    /\ Len(carts["c1"].items) = 2
====
